---- MODULE Spec2Model ----
(***************************************************************************)
(* Loan Against Asset checker: the Flask JSON endpoint (src/app.py) and    *)
(* the Streamlit form UI (src/streamlit_app.py).  The two programs are     *)
(* separate processes that share nothing; a behaviour of the repository is *)
(* a behaviour of one of them, chosen in Init (variable app).              *)
(*                                                                         *)
(* Arithmetic.  Amounts are integers (rupees).  Every rate in the two      *)
(* RBI_RULES tables is a multiple of 0.05, so a rate is held exactly as a  *)
(* number of twentieths (0.75 is 15): "x > a * rate" is "20*x > a*rate20". *)
(* A value the source keeps as a float is held exactly: a product          *)
(* asset_value * rate as its number of twentieths of a rupee, a percentage *)
(* loan/asset*100 as a mixed number.  A value the source formats           *)
(* ("{:.1f}%", int(), "{:.0f}%") is held as the formatted number.          *)
(***************************************************************************)
EXTENDS Integers, Sequences, FiniteSets, TLC

VARIABLES app, api_key, request, response, sidebar, session, llm_response, ui_error

vars == <<app, api_key, request, response, sidebar, session, llm_response, ui_error>>

(***************************************************************************)
(* Bounds of the explored inputs.                                          *)
(***************************************************************************)
\* loan amounts 0, 20000, ..., MaxLoanSteps * 20000 are explored
MaxLoanSteps == 5
\* asset values 0, 50000, ..., MaxAssetSteps * 50000 are explored
MaxAssetSteps == 2

LoanGrid == {k * 20000 : k \in 0..MaxLoanSteps}
AssetGrid == {k * 50000 : k \in 0..MaxAssetSteps}

(***************************************************************************)
(* Helpers for Python values.                                              *)
(***************************************************************************)
\* dict.get(key, default)
Get(d, key, default) == IF key \in DOMAIN d THEN d[key] ELSE default

\* str.lower() on the strings the requests carry
Lower(s) ==
    CASE s = "Urban" -> "urban"
      [] s = "Rural" -> "rural"
      [] s = "Gold" -> "gold"
      [] s = "Property" -> "property"
      [] s = "Shares" -> "shares"
      [] OTHER -> s

\* str.upper() on the strings the requests carry
Upper(s) ==
    CASE s = "nifty50" -> "NIFTY50"
      [] s = "nifty100" -> "NIFTY100"
      [] s = "Other" -> "OTHER"
      [] OTHER -> s

Abs(x) == IF x < 0 THEN -x ELSE x

\* a formatted message: the f-string's text and the values it interpolates
Msg(text, args) == [text |-> text, args |-> args]

\* "{rate*100:.0f}": a rate in twentieths as a whole percentage
Pct0(rate20) == rate20 * 5

\* loan/asset*100 for asset > 0, exactly, as whole + num/den with 0 <= num < den
Percent(loan, asset) ==
    LET q == loan \div asset
        r == loan % asset
    IN  [whole |-> q * 100 + (r * 100) \div asset,
         num   |-> (r * 100) % asset,
         den   |-> asset]

\* "{p:.1f}": the percentage p rounded to one decimal (round-half-even), in tenths
Fmt1(p) ==
    LET fl  == p.whole * 10 + (p.num * 10) \div p.den
        rem == (p.num * 10) % p.den
    IN  IF 2 * rem > p.den \/ (2 * rem = p.den /\ fl % 2 = 1) THEN fl + 1 ELSE fl

\* int(x) of a float x held as twentieths: truncation toward zero
IntOf20(x20) == IF x20 >= 0 THEN x20 \div 20 ELSE -((-x20) \div 20)

(***************************************************************************)
(* src/app.py                                                              *)
(***************************************************************************)
RBI_RULES ==
    [gold     |-> [urban_ltv |-> 15, rural_ltv |-> 18, min_purity |-> 18,
                   max_amount |-> 2000000, tenure_months |-> 3],
     property |-> [standard_ltv |-> 12, min_ltv |-> 10, max_ltv |-> 14,
                   circle_rate_threshold |-> 18],
     shares   |-> [ltv |-> 10, eligible_indices |-> <<"NIFTY50">>]]

\* the 'ltv_used' string of the three validators
LtvUsedStr(loan_amount, asset_value) ==
    IF asset_value > 0
    THEN [fmt |-> "{:.1f}%", tenths |-> Fmt1(Percent(loan_amount, asset_value))]
    ELSE [fmt |-> "0%", tenths |-> 0]

GoldPurityErrors(data) ==
    LET rules == RBI_RULES.gold
    IN  IF Get(data, "purity", 0) < rules.min_purity
        THEN << Msg("Purity < {}k (BIS Standards)", <<rules.min_purity>>) >>
        ELSE << >>

GoldLtvErrors(asset_value, loan_amount, ltv_limit) ==
    IF asset_value > 0 /\ loan_amount * 20 > ltv_limit * asset_value
    THEN << Msg("LTV {:.1f}% > {:.0f}% limit",
                <<Fmt1(Percent(loan_amount, asset_value)), Pct0(ltv_limit)>>) >>
    ELSE << >>

GoldMaxAmountErrors(loan_amount) ==
    LET rules == RBI_RULES.gold
    IN  IF loan_amount > rules.max_amount
        THEN << Msg("Loan > Rs{:,} max", <<rules.max_amount>>) >>
        ELSE << >>

validate_gold_loan(data) ==
    LET rules        == RBI_RULES.gold
        location     == Lower(Get(data, "location", "urban"))
        ltv_limit    == IF location = "urban" THEN rules.urban_ltv ELSE rules.rural_ltv
        asset_value  == Get(data, "asset_value", 0)
        loan_amount  == Get(data, "loan_amount", 0)
        errors       == GoldPurityErrors(data)
                          \o GoldLtvErrors(asset_value, loan_amount, ltv_limit)
                          \o GoldMaxAmountErrors(loan_amount)
        max_eligible == asset_value * ltv_limit
    IN  [approved     |-> Len(errors) = 0,
         ltv_used     |-> LtvUsedStr(loan_amount, asset_value),
         ltv_limit    |-> Pct0(ltv_limit),
         max_eligible |-> IntOf20(max_eligible),
         errors       |-> errors,
         location     |-> location]

PropertyCircleErrors(asset_value, circle_rate) ==
    LET rules == RBI_RULES.property
    IN  IF circle_rate > 0 /\ asset_value > 0
           /\ circle_rate * 20 < asset_value * rules.circle_rate_threshold
        THEN << Msg("Circle rate < 90% of property value", << >>) >>
        ELSE << >>

PropertyLtvErrors(asset_value, loan_amount) ==
    LET rules == RBI_RULES.property
    IN  IF asset_value > 0 /\ loan_amount * 20 > rules.max_ltv * asset_value
        THEN << Msg("LTV {:.1f}% > 70% max",
                    <<Fmt1(Percent(loan_amount, asset_value))>>) >>
        ELSE << >>

PropertyMaxEligible(asset_value) == asset_value * RBI_RULES.property.standard_ltv

validate_property_mortgage(data) ==
    LET asset_value  == Get(data, "asset_value", 0)
        loan_amount  == Get(data, "loan_amount", 0)
        circle_rate  == Get(data, "circle_rate", 0)
        errors       == PropertyCircleErrors(asset_value, circle_rate)
                          \o PropertyLtvErrors(asset_value, loan_amount)
        max_eligible == PropertyMaxEligible(asset_value)
    IN  [approved     |-> Len(errors) = 0,
         ltv_used     |-> LtvUsedStr(loan_amount, asset_value),
         ltv_limit    |-> 60,
         max_eligible |-> IntOf20(max_eligible),
         errors       |-> errors]

ShareIndexErrors(share_index) ==
    LET rules == RBI_RULES.shares
    IN  IF \A i \in 1..Len(rules.eligible_indices) : rules.eligible_indices[i] # share_index
        THEN << Msg("Only {} eligible", rules.eligible_indices) >>
        ELSE << >>

ShareLtvErrors(asset_value, loan_amount) ==
    LET rules == RBI_RULES.shares
    IN  IF asset_value > 0 /\ loan_amount * 20 > rules.ltv * asset_value
        THEN << Msg("LTV {:.1f}% > 50% max",
                    <<Fmt1(Percent(loan_amount, asset_value))>>) >>
        ELSE << >>

validate_share_pledge(data) ==
    LET rules        == RBI_RULES.shares
        asset_value  == Get(data, "asset_value", 0)
        loan_amount  == Get(data, "loan_amount", 0)
        share_index  == Upper(Get(data, "share_index", "NIFTY50"))
        errors       == ShareIndexErrors(share_index)
                          \o ShareLtvErrors(asset_value, loan_amount)
        max_eligible == asset_value * rules.ltv
    IN  [approved     |-> Len(errors) = 0,
         ltv_used     |-> LtvUsedStr(loan_amount, asset_value),
         ltv_limit    |-> 50,
         max_eligible |-> IntOf20(max_eligible),
         errors       |-> errors]

\* the advisory citation; fault: an exception raised inside the try block
get_rbi_citation(asset_type, key, fault) ==
    LET queries == [gold     |-> "Latest RBI gold loan LTV limits and regulations Dec 2025",
                    property |-> "Latest RBI property mortgage circle rate rules 2025",
                    shares   |-> "Latest RBI SEBI share pledge lending limits 2025"]
    IN  IF fault
        THEN [error |-> "str(e)", cost_usd |-> 0]
        ELSE IF key = ""
        THEN [query    |-> Msg("Latest RBI {} lending rules 2025", <<asset_type>>),
              citation |-> "RBI Master Direction",
              cost_usd |-> 0]
        ELSE [query     |-> Msg(Get(queries, asset_type, "None"), << >>),
              citation  |-> "RBI Master Direction + Perplexity AI",
              cost_usd  |-> 2,    \* 0.002, in thousandths of a dollar
              timestamp |-> "now"]

\* validators.get(asset_type, validate_gold_loan)
Validator(asset_type, data) ==
    CASE asset_type = "gold"     -> validate_gold_loan(data)
      [] asset_type = "property" -> validate_property_mortgage(data)
      [] asset_type = "shares"   -> validate_share_pledge(data)
      [] OTHER                   -> validate_gold_loan(data)

\* Annotate with a slip: an advisory error is answered in place of the result
AnnotateFailing(result, citation, asset_type) ==
    IF "error" \in DOMAIN citation
    THEN [error |-> citation.error, asset_type |-> asset_type, timestamp |-> "now"]
    ELSE [rbi_citation |-> citation, asset_type |-> asset_type, timestamp |-> "now"]
           @@ result

\* result['rbi_citation'] = ...; result['asset_type'] = ...; result['timestamp'] = ...
Annotate(result, citation, asset_type) ==
    [rbi_citation |-> citation, asset_type |-> asset_type, timestamp |-> "now"] @@ result

\* the handler of POST /api/check; a body that is not a JSON object makes
\* data.get raise, which the handler answers with status 400
check_eligibility(data, key, fault) ==
    IF "not_json" \in DOMAIN data
    THEN [status |-> 400, body |-> [error |-> "str(e)"]]
    ELSE LET asset_type == Lower(Get(data, "asset_type", "gold"))
             result     == Validator(asset_type, data)
         IN  [status |-> 200,
              body   |-> Annotate(result, get_rbi_citation(asset_type, key, fault),
                                  asset_type)]

(***************************************************************************)
(* src/streamlit_app.py                                                    *)
(***************************************************************************)
ST_RBI_RULES ==
    [gold_loan         |-> [max_ltv_urban |-> 15, max_ltv_rural |-> 14, purity_min |-> 18,
                            max_loan_amount |-> 10000000],
     property_mortgage |-> [max_ltv |-> 16, circle_rate_tolerance |-> 2,
                            max_loan_amount |-> 50000000],
     share_pledge      |-> [max_ltv_nifty50 |-> 10, max_ltv_nifty100 |-> 9,
                            max_ltv_other |-> 8, max_loan_amount |-> 5000000]]

\* LtvUsed with a slip: full usage reported when there is no asset
LtvUsedFull(loan_amount, asset_value) ==
    IF asset_value > 0 THEN Percent(loan_amount, asset_value)
    ELSE [whole |-> 100, num |-> 0, den |-> 1]

\* (loan_amount / asset_value * 100) if asset_value > 0 else 0
LtvUsed(loan_amount, asset_value) ==
    IF asset_value > 0 THEN Percent(loan_amount, asset_value)
    ELSE [whole |-> 0, num |-> 0, den |-> 1]

\* LtvLimitErrors with a slip: the comparison turned round
LtvLimitErrorsReversed(loan_amount, max_eligible, msg) ==
    IF loan_amount * 20 < max_eligible THEN << msg >> ELSE << >>

\* if loan_amount > max_eligible: errors.append(...)
LtvLimitErrors(loan_amount, max_eligible, msg) ==
    IF loan_amount * 20 > max_eligible THEN << msg >> ELSE << >>

\* if loan_amount > rules["max_loan_amount"]: errors.append(...)
MaxLoanErrors(loan_amount, rules) ==
    IF loan_amount > rules.max_loan_amount
    THEN << Msg("Loan amount exceeds RBI maximum of Rs{:,}", <<rules.max_loan_amount>>) >>
    ELSE << >>

\* Verdict with a slip: approved decided before the last check was appended
VerdictEarly(errors, max_eligible, ltv_used, ltv_limit) ==
    [approved     |-> Len(errors) <= 1,
     max_eligible |-> max_eligible,
     ltv_used     |-> ltv_used,
     errors       |-> errors,
     ltv_limit    |-> Pct0(ltv_limit)]

\* the tuple approved, max_eligible, ltv_used, errors, ltv_limit_str
Verdict(errors, max_eligible, ltv_used, ltv_limit) ==
    [approved     |-> Len(errors) = 0,
     max_eligible |-> max_eligible,
     ltv_used     |-> ltv_used,
     errors       |-> errors,
     ltv_limit    |-> Pct0(ltv_limit)]

PurityErrors(purity) ==
    LET rules == ST_RBI_RULES.gold_loan
    IN  IF purity < rules.purity_min
        THEN << Msg("Gold purity {} carats below RBI minimum of {} carats",
                    <<purity, rules.purity_min>>) >>
        ELSE << >>

validate_gold(asset_value, loan_amount, location, purity) ==
    LET rules        == ST_RBI_RULES.gold_loan
        ltv_limit    == IF location = "Urban" THEN rules.max_ltv_urban
                        ELSE rules.max_ltv_rural
        ltv_used     == LtvUsed(loan_amount, asset_value)
        max_eligible == asset_value * ltv_limit
        errors       == PurityErrors(purity)
                          \o LtvLimitErrors(loan_amount, max_eligible,
                                 Msg("Loan amount exceeds LTV limit of {:.0f}%",
                                     <<Pct0(ltv_limit)>>))
                          \o MaxLoanErrors(loan_amount, rules)
    IN  Verdict(errors, max_eligible, ltv_used, ltv_limit)

\* abs(asset_value - circle_rate) / circle_rate > tolerance, for circle_rate > 0
VarianceErrors(asset_value, circle_rate) ==
    LET rules == ST_RBI_RULES.property_mortgage
    IN  IF asset_value > 0
           /\ Abs(asset_value - circle_rate) * 20 > rules.circle_rate_tolerance * circle_rate
        THEN << Msg("Property value variance from circle rate exceeds {:.0f}%",
                    <<Pct0(rules.circle_rate_tolerance)>>) >>
        ELSE << >>

\* the division by circle_rate is guarded by asset_value > 0 alone
VarianceRaises(asset_value, circle_rate) == asset_value > 0 /\ circle_rate = 0

validate_property(asset_value, loan_amount, circle_rate) ==
    LET rules        == ST_RBI_RULES.property_mortgage
        ltv_limit    == rules.max_ltv
        ltv_used     == LtvUsed(loan_amount, asset_value)
        max_eligible == asset_value * ltv_limit
        errors       == VarianceErrors(asset_value, circle_rate)
                          \o LtvLimitErrors(loan_amount, max_eligible,
                                 Msg("Loan amount exceeds LTV limit of {:.0f}%",
                                     <<Pct0(ltv_limit)>>))
                          \o MaxLoanErrors(loan_amount, rules)
    IN  IF VarianceRaises(asset_value, circle_rate)
        THEN [raises |-> "ZeroDivisionError"]
        ELSE Verdict(errors, max_eligible, ltv_used, ltv_limit)

ShareLtvLimit(share_index) ==
    LET rules == ST_RBI_RULES.share_pledge
    IN  IF share_index = "NIFTY50" THEN rules.max_ltv_nifty50
        ELSE IF share_index = "NIFTY100" THEN rules.max_ltv_nifty100
        ELSE rules.max_ltv_other

validate_shares(asset_value, loan_amount, share_index) ==
    LET rules        == ST_RBI_RULES.share_pledge
        ltv_limit    == ShareLtvLimit(share_index)
        ltv_used     == LtvUsed(loan_amount, asset_value)
        max_eligible == asset_value * ltv_limit
        errors       == LtvLimitErrors(loan_amount, max_eligible,
                                 Msg("Loan amount exceeds LTV limit of {:.0f}% for {}",
                                     <<Pct0(ltv_limit), share_index>>))
                          \o MaxLoanErrors(loan_amount, rules)
    IN  Verdict(errors, max_eligible, ltv_used, ltv_limit)

\* the advisory text, or the error text when the remote call raises
get_llm_analysis(asset_type, params, remote_ok) ==
    IF remote_ok
    THEN Msg("response.choices[0].message.content",
             <<asset_type, Get(params, "asset_value", 0), Get(params, "loan_amount", 0),
               Fmt1(Get(params, "ltv_used", [whole |-> 0, num |-> 0, den |-> 1]))>>)
    ELSE Msg("Error fetching LLM analysis: {}. Please ensure PERPLEXITY_API_KEY is set.",
             <<"str(e)">>)

(***************************************************************************)
(* Inputs.                                                                 *)
(***************************************************************************)
\* the amounts of the documented scenarios and the form's default values, and
\* one between the two property limits of src/app.py (60% and 70% of 100000)
ScenarioLoans == {42000, 65000, 75000, 3000000}

AssetValues == AssetGrid \cup {5000000}

CircleRates == {0, 90000, 100000, 4500000}

Purities == {17, 18, 22}

\* a loan amount domain reaching the absolute cap of a rule set
LoanAmounts(cap) == LoanGrid \cup ScenarioLoans \cup {cap, cap + 1}

\* JSON bodies: a key may be missing, a number may be negative
Field(key, S) == {key :> v : v \in S}
OptField(key, S) == Field(key, S) \cup {[k \in {} |-> 0]}

ApiLoanAmounts == LoanAmounts(RBI_RULES.gold.max_amount) \cup {-10000}

ApiCommon(types) ==
    {t @@ a @@ l : t \in types,
                   a \in Field("asset_value", AssetValues),
                   l \in Field("loan_amount", ApiLoanAmounts)}

ApiGoldFields ==
    {loc @@ pu : loc \in OptField("location", {"urban", "Rural"}),
                 pu \in OptField("purity", Purities)}

ApiRequests ==
    {c @@ g : c \in ApiCommon(OptField("asset_type", {"gold", "Gold", "crypto"})),
              g \in ApiGoldFields}
      \cup {c @@ f : c \in ApiCommon(Field("asset_type", {"property"})),
                     f \in OptField("circle_rate", CircleRates)}
      \cup {c @@ f : c \in ApiCommon(Field("asset_type", {"shares"})),
                     f \in OptField("share_index", {"NIFTY50", "nifty50", "NIFTY100", "Other"})}
      \cup {[not_json |-> TRUE]}

NoRequest == [none |-> TRUE]
NoResponse == [status |-> 0]
NoLlm == Msg("", << >>)

\* whether the remote text-generation call can succeed: never without a key
RemoteOutcomes == IF api_key = "" THEN {FALSE} ELSE BOOLEAN

(***************************************************************************)
(* State machine.                                                          *)
(***************************************************************************)
Init ==
    /\ app \in {"flask", "streamlit"}
    /\ api_key \in {"", "pplx-key"}
    /\ request = NoRequest
    /\ response = NoResponse
    /\ sidebar = "Gold Loan"
    /\ session = [results_tab |-> FALSE]
    /\ llm_response = NoLlm
    /\ ui_error = "none"

\* POST /api/check: the server takes a request and answers it.  The handler
\* keeps nothing between requests, so one exchange is modelled at a time.
CheckEligibility ==
    /\ app = "flask"
    /\ request = NoRequest
    /\ \E data \in ApiRequests, fault \in BOOLEAN :
         /\ request' = data
         /\ response' = check_eligibility(data, api_key, fault)
    /\ UNCHANGED <<app, api_key, sidebar, session, llm_response, ui_error>>

\* the response reaches the client and the exchange is over
Deliver ==
    /\ app = "flask"
    /\ request # NoRequest
    /\ request' = NoRequest
    /\ response' = NoResponse
    /\ UNCHANGED <<app, api_key, sidebar, session, llm_response, ui_error>>

\* Store with a slip: the assignment of errors left out, so the list of an
\* earlier submit (or none) stays in st.session_state
StoreWithoutErrors(r, params) ==
    [asset_type   |-> sidebar,
     approved     |-> r.approved,
     max_eligible |-> r.max_eligible,
     ltv_used     |-> r.ltv_used,
     ltv_limit    |-> r.ltv_limit,
     params       |-> params,
     results_tab  |-> TRUE] @@ session

\* the assignments of a submit button's handler to st.session_state
Store(r, params) ==
    [asset_type   |-> sidebar,
     approved     |-> r.approved,
     max_eligible |-> r.max_eligible,
     ltv_used     |-> r.ltv_used,
     errors       |-> r.errors,
     ltv_limit    |-> r.ltv_limit,
     params       |-> params,
     results_tab  |-> TRUE] @@ session

\* a submit: the validation, the stores, then st.rerun(), whose run renders the
\* results view and calls get_llm_analysis; a validation that raises ends the
\* run with the exception shown and nothing stored
Submit(r, params) ==
    IF "raises" \in DOMAIN r
    THEN /\ ui_error' = r.raises
         /\ UNCHANGED <<session, llm_response>>
    ELSE /\ session' = Store(r, params)
         /\ \E ok \in RemoteOutcomes :
              llm_response' = get_llm_analysis(session'.asset_type, session'.params, ok)
         /\ ui_error' = "none"

GoldSubmit ==
    /\ app = "streamlit"
    /\ ~session.results_tab
    /\ sidebar = "Gold Loan"
    /\ \E asset_value \in AssetValues,
          loan_amount \in LoanAmounts(ST_RBI_RULES.gold_loan.max_loan_amount),
          location \in {"Urban", "Rural"}, purity \in Purities :
         LET r == validate_gold(asset_value, loan_amount, location, purity)
         IN  Submit(r, [asset_value |-> asset_value, loan_amount |-> loan_amount,
                        location |-> location, purity |-> purity,
                        ltv_used |-> r.ltv_used])
    /\ UNCHANGED <<app, api_key, request, response, sidebar>>

PropSubmit ==
    /\ app = "streamlit"
    /\ ~session.results_tab
    /\ sidebar = "Property Mortgage"
    /\ \E asset_value \in AssetValues,
          loan_amount \in LoanAmounts(ST_RBI_RULES.property_mortgage.max_loan_amount),
          circle_rate \in CircleRates :
         LET r == validate_property(asset_value, loan_amount, circle_rate)
         IN  Submit(r, [asset_value |-> asset_value, loan_amount |-> loan_amount,
                        circle_rate |-> circle_rate,
                        ltv_used |-> Get(r, "ltv_used", 0)])
    /\ UNCHANGED <<app, api_key, request, response, sidebar>>

SharesSubmit ==
    /\ app = "streamlit"
    /\ ~session.results_tab
    /\ sidebar = "Share Pledge"
    /\ \E asset_value \in AssetValues,
          loan_amount \in LoanAmounts(ST_RBI_RULES.share_pledge.max_loan_amount),
          share_index \in {"NIFTY50", "NIFTY100", "Other"} :
         LET r == validate_shares(asset_value, loan_amount, share_index)
         IN  Submit(r, [asset_value |-> asset_value, loan_amount |-> loan_amount,
                        share_index |-> share_index,
                        ltv_used |-> r.ltv_used])
    /\ UNCHANGED <<app, api_key, request, response, sidebar>>

\* "Back to Input": the rerun renders the input view
Back ==
    /\ app = "streamlit"
    /\ session.results_tab
    /\ session' = [session EXCEPT !["results_tab"] = FALSE]
    /\ llm_response' = NoLlm
    /\ ui_error' = "none"
    /\ UNCHANGED <<app, api_key, request, response, sidebar>>

\* the sidebar selectbox: the rerun renders the current view again, and the
\* results view calls get_llm_analysis on every run
SelectAssetType ==
    /\ app = "streamlit"
    /\ \E t \in {"Gold Loan", "Property Mortgage", "Share Pledge"} :
         /\ t # sidebar
         /\ sidebar' = t
    /\ IF session.results_tab
       THEN \E ok \in RemoteOutcomes :
              llm_response' = get_llm_analysis(session.asset_type, session.params, ok)
       ELSE llm_response' = NoLlm
    /\ ui_error' = "none"
    /\ UNCHANGED <<app, api_key, request, response, session>>

Next ==
    \/ CheckEligibility
    \/ Deliver
    \/ GoldSubmit
    \/ PropSubmit
    \/ SharesSubmit
    \/ Back
    \/ SelectAssetType

Spec == Init /\ [][Next]_vars

(***************************************************************************)
(* Vocabulary of the properties.                                           *)
(***************************************************************************)
\* the endpoint has answered the request in hand with an evaluation
ApiEvaluated == app = "flask" /\ response.status = 200

ApiAssetType == Lower(Get(request, "asset_type", "gold"))
ApiAssetValue == Get(request, "asset_value", 0)
ApiLoanAmount == Get(request, "loan_amount", 0)

\* a request of the input contract: a known asset class, no negative amount
ApiValidRequest ==
    /\ ApiAssetType \in {"gold", "property", "shares"}
    /\ ApiAssetValue >= 0
    /\ ApiLoanAmount >= 0

\* the form UI holds the stored outcome of a validation
UiEvaluated == app = "streamlit" /\ "approved" \in DOMAIN session

\* the check a violation message belongs to
CheckOf(m) ==
    CASE m.text = "Purity < {}k (BIS Standards)" -> "purity"
      [] m.text = "Gold purity {} carats below RBI minimum of {} carats" -> "purity"
      [] m.text = "LTV {:.1f}% > {:.0f}% limit" -> "ltv"
      [] m.text = "LTV {:.1f}% > 70% max" -> "ltv"
      [] m.text = "LTV {:.1f}% > 50% max" -> "ltv"
      [] m.text = "Loan amount exceeds LTV limit of {:.0f}%" -> "ltv"
      [] m.text = "Loan amount exceeds LTV limit of {:.0f}% for {}" -> "ltv"
      [] m.text = "Loan > Rs{:,} max" -> "cap"
      [] m.text = "Loan amount exceeds RBI maximum of Rs{:,}" -> "cap"
      [] m.text = "Circle rate < 90% of property value" -> "circle"
      [] m.text = "Property value variance from circle rate exceeds {:.0f}%" -> "circle"
      [] m.text = "Only {} eligible" -> "index"
      [] OTHER -> "other"

Checks(errors) == [i \in 1..Len(errors) |-> CheckOf(errors[i])]

Records(errors, check) == \E i \in 1..Len(errors) : CheckOf(errors[i]) = check

\* the entry of a check: present exactly when the check fails
Entry(fails, check) == IF fails THEN <<check>> ELSE << >>

\* loan/asset > rate (a rate in twentieths), for asset > 0
LtvAbove(loan, asset, rate20) == asset > 0 /\ loan * 20 > rate20 * asset

\* |asset - circle| / circle > tolerance (in twentieths), for both > 0
VarianceAbove(asset, circle, tol20) ==
    asset > 0 /\ circle > 0 /\ Abs(asset - circle) * 20 > tol20 * circle

\* the form's validation of stored parameters
UiValidate(asset_type, params) ==
    CASE asset_type = "Gold Loan" ->
           validate_gold(params.asset_value, params.loan_amount,
                         params.location, params.purity)
      [] asset_type = "Property Mortgage" ->
           validate_property(params.asset_value, params.loan_amount, params.circle_rate)
      [] OTHER ->
           validate_shares(params.asset_value, params.loan_amount, params.share_index)

UiLoanDomain(asset_type) ==
    CASE asset_type = "Gold Loan" -> LoanAmounts(ST_RBI_RULES.gold_loan.max_loan_amount)
      [] asset_type = "Property Mortgage" ->
           LoanAmounts(ST_RBI_RULES.property_mortgage.max_loan_amount)
      [] OTHER -> LoanAmounts(ST_RBI_RULES.share_pledge.max_loan_amount)

(***************************************************************************)
(* C1                                                                      *)
(***************************************************************************)
\* C1: in every evaluation result, of the endpoint and of the form, approved
\* is true if and only if the violations list is empty.
C1_ApprovedIffNoViolations ==
    /\ ApiEvaluated =>
         /\ "approved" \in DOMAIN response.body
         /\ response.body.approved <=> (response.body.errors = << >>)
    /\ UiEvaluated => (session.approved <=> (session.errors = << >>))

\* C1 witness: a stored rejection that lists three violations
C1_Witness ==
    /\ UiEvaluated
    /\ session.results_tab
    /\ ~session.approved
    /\ Len(session.errors) = 3

(***************************************************************************)
(* C2                                                                      *)
(***************************************************************************)
\* C2: a request with an unknown asset class or a negative loan amount gets a
\* distinct "invalid request" outcome, never an approved or rejected evaluation.
C2_InvalidRequestRefused ==
    (/\ app = "flask"
     /\ response # NoResponse
     /\ "not_json" \notin DOMAIN request
     /\ \/ ApiAssetType \notin {"gold", "property", "shares"}
        \/ ApiLoanAmount < 0)
    => /\ response.status # 200
       /\ "approved" \notin DOMAIN response.body

(***************************************************************************)
(* C3                                                                      *)
(***************************************************************************)
\* C3: for valid inputs, the result's maximum eligible amount is the asset value
\* times the LTV limit its LTV usage check applied (to the whole rupee where the
\* endpoint prints whole rupees), and the reported limit is that same limit.
C3_MaxEligibleUsesAppliedLimit ==
    /\ (ApiEvaluated /\ ApiValidRequest) =>
         \E lim \in 1..20 :
            /\ response.body.ltv_limit = 5 * lim
            /\ ApiAssetValue * lim - 20 * response.body.max_eligible \in 0..19
            /\ ApiAssetValue > 0 =>
                 (Records(response.body.errors, "ltv")
                    <=> LtvAbove(ApiLoanAmount, ApiAssetValue, lim))
    /\ UiEvaluated =>
         \E lim \in 1..20 :
            /\ session.ltv_limit = 5 * lim
            /\ session.max_eligible = session.params.asset_value * lim
            /\ session.params.asset_value > 0 =>
                 (Records(session.errors, "ltv")
                    <=> LtvAbove(session.params.loan_amount,
                                 session.params.asset_value, lim))

(***************************************************************************)
(* C4                                                                      *)
(***************************************************************************)
\* the reported LTV usage is zero
ApiLtvUsedIsZero == response.body.ltv_used.tenths = 0
UiLtvUsedIsZero == session.ltv_used.whole = 0 /\ session.ltv_used.num = 0

\* C4 as claimed: for non-negative amounts the reported LTV usage is 0 if and
\* only if the asset value is 0.
C4_ZeroIffNoAsset ==
    /\ (ApiEvaluated /\ ApiAssetValue >= 0 /\ ApiLoanAmount >= 0) =>
         (ApiLtvUsedIsZero <=> ApiAssetValue = 0)
    /\ UiEvaluated => (UiLtvUsedIsZero <=> session.params.asset_value = 0)

\* p = whole + num/den is exactly loan/asset*100
IsPercentOf(p, loan, asset) ==
    LET q == loan \div asset
        r == loan % asset
    IN  /\ p.den = asset
        /\ p.num \in 0..(asset - 1)
        /\ (p.whole - 100 * q) * asset + p.num = 100 * r

\* tenths/10 is loan/asset*100 to the nearest tenth (either neighbour at a tie)
IsRoundedPercentOf(tenths, loan, asset) ==
    LET q  == loan \div asset
        r  == loan % asset
        q2 == (100 * r) \div asset
        r2 == (100 * r) % asset
        q3 == (10 * r2) \div asset
        r3 == (10 * r2) % asset
        fl == 1000 * q + 10 * q2 + q3
    IN  \/ tenths = fl /\ 2 * r3 <= asset
        \/ tenths = fl + 1 /\ 2 * r3 >= asset

\* C4 amended: for non-negative amounts, a result reports LTV usage 0 when the
\* asset value is 0, whatever the loan amount; when the asset value is positive
\* it reports loanAmount / assetValue * 100 (the endpoint: rounded to one
\* decimal), which is 0 also when the loan amount is 0.
C4_LtvUsedValue ==
    /\ (ApiEvaluated /\ ApiAssetValue >= 0 /\ ApiLoanAmount >= 0) =>
         IF ApiAssetValue = 0
         THEN response.body.ltv_used = [fmt |-> "0%", tenths |-> 0]
         ELSE /\ response.body.ltv_used.fmt = "{:.1f}%"
              /\ IsRoundedPercentOf(response.body.ltv_used.tenths,
                                    ApiLoanAmount, ApiAssetValue)
              /\ ApiLoanAmount = 0 => ApiLtvUsedIsZero
    /\ UiEvaluated =>
         IF session.params.asset_value = 0
         THEN UiLtvUsedIsZero
         ELSE /\ IsPercentOf(session.ltv_used, session.params.loan_amount,
                             session.params.asset_value)
              /\ UiLtvUsedIsZero <=> session.params.loan_amount = 0

\* C4 witness: no asset and a positive loan, reported as usage 0
C4_Witness ==
    /\ UiEvaluated
    /\ session.results_tab
    /\ session.params.asset_value = 0
    /\ session.params.loan_amount > 0
    /\ UiLtvUsedIsZero

(***************************************************************************)
(* C5                                                                      *)
(***************************************************************************)
\* the entries the checks of an asset class call for, in check order
GoldEntries(purity, purity_min, loan, asset, rate20, cap) ==
    Entry(purity < purity_min, "purity")
      \o Entry(LtvAbove(loan, asset, rate20), "ltv")
      \o Entry(loan > cap, "cap")

PropertyEntries(asset, circle, tol20, loan, rate20, capped, cap) ==
    Entry(VarianceAbove(asset, circle, tol20), "circle")
      \o Entry(LtvAbove(loan, asset, rate20), "ltv")
      \o Entry(capped /\ loan > cap, "cap")

SharesEntries(loan, asset, rate20, capped, cap) ==
    Entry(LtvAbove(loan, asset, rate20), "ltv")
      \o Entry(capped /\ loan > cap, "cap")

\* the endpoint's tables configure no maximum loan for property and shares, and
\* give the circle-rate bound as the threshold 0.90, a tolerance of 0.10
ApiEntries ==
    CASE ApiAssetType = "gold" ->
           GoldEntries(Get(request, "purity", 0), RBI_RULES.gold.min_purity,
                       ApiLoanAmount, ApiAssetValue,
                       IF Lower(Get(request, "location", "urban")) = "urban"
                       THEN RBI_RULES.gold.urban_ltv ELSE RBI_RULES.gold.rural_ltv,
                       RBI_RULES.gold.max_amount)
      [] ApiAssetType = "property" ->
           PropertyEntries(ApiAssetValue, Get(request, "circle_rate", 0),
                           20 - RBI_RULES.property.circle_rate_threshold,
                           ApiLoanAmount, RBI_RULES.property.max_ltv, FALSE, 0)
      [] OTHER ->
           SharesEntries(ApiLoanAmount, ApiAssetValue, RBI_RULES.shares.ltv, FALSE, 0)

UiEntries ==
    LET p == session.params
    IN  CASE session.asset_type = "Gold Loan" ->
               GoldEntries(p.purity, ST_RBI_RULES.gold_loan.purity_min,
                           p.loan_amount, p.asset_value,
                           IF p.location = "Urban" THEN ST_RBI_RULES.gold_loan.max_ltv_urban
                           ELSE ST_RBI_RULES.gold_loan.max_ltv_rural,
                           ST_RBI_RULES.gold_loan.max_loan_amount)
          [] session.asset_type = "Property Mortgage" ->
               PropertyEntries(p.asset_value, p.circle_rate,
                               ST_RBI_RULES.property_mortgage.circle_rate_tolerance,
                               p.loan_amount, ST_RBI_RULES.property_mortgage.max_ltv,
                               TRUE, ST_RBI_RULES.property_mortgage.max_loan_amount)
          [] OTHER ->
               SharesEntries(p.loan_amount, p.asset_value,
                             ShareLtvLimit(p.share_index),
                             TRUE, ST_RBI_RULES.share_pledge.max_loan_amount)

\* C5: the violations hold exactly one entry for each failing check and nothing
\* else, in check order (gold: purity, LTV usage, cap; property: circle rate,
\* LTV usage, cap; shares: LTV usage, cap).
C5_OneEntryPerFailingCheck ==
    /\ (ApiEvaluated /\ ApiValidRequest) => Checks(response.body.errors) = ApiEntries
    /\ UiEvaluated => Checks(session.errors) = UiEntries

(***************************************************************************)
(* C6                                                                      *)
(***************************************************************************)
\* C6: whatever the advisory call does (text, no API key, exception), the
\* response is delivered with the approved flag, the maximum eligible amount and
\* the violations the evaluation produced, the advisory's failure appearing only
\* as an error entry or error text beside them.
C6_AdvisoryLeavesVerdict ==
    /\ (app = "flask" /\ response # NoResponse /\ "not_json" \notin DOMAIN request) =>
         LET r == Validator(ApiAssetType, request)
         IN  /\ response.status = 200
             /\ {"approved", "max_eligible", "errors", "rbi_citation"}
                  \subseteq DOMAIN response.body
             /\ response.body.approved = r.approved
             /\ response.body.max_eligible = r.max_eligible
             /\ response.body.errors = r.errors
             /\ \/ "error" \in DOMAIN response.body.rbi_citation
                \/ "citation" \in DOMAIN response.body.rbi_citation
    /\ (app = "streamlit" /\ session.results_tab) =>
         LET r == UiValidate(session.asset_type, session.params)
         IN  /\ llm_response # NoLlm
             /\ ui_error = "none"
             /\ session.approved = r.approved
             /\ session.max_eligible = r.max_eligible
             /\ session.errors = r.errors

\* C6 witness: the advisory call raised and the approval is delivered all the same
C6_Witness ==
    /\ ApiEvaluated
    /\ "error" \in DOMAIN response.body.rbi_citation
    /\ response.body.approved
    /\ response.body.max_eligible > 0

(***************************************************************************)
(* C7                                                                      *)
(***************************************************************************)
\* C7: with the other fields held fixed, a larger loan amount never yields
\* fewer violations.
C7_MonotoneInLoanAmount ==
    /\ ApiEvaluated =>
         \A l2 \in ApiLoanAmounts :
            l2 >= ApiLoanAmount =>
              Len(Validator(ApiAssetType, ("loan_amount" :> l2) @@ request).errors)
                >= Len(response.body.errors)
    /\ UiEvaluated =>
         \A l2 \in UiLoanDomain(session.asset_type) :
            l2 >= session.params.loan_amount =>
              Len(UiValidate(session.asset_type,
                             [session.params EXCEPT !.loan_amount = l2]).errors)
                >= Len(session.errors)

\* C7 witness: an approved request that a larger loan amount turns into one with
\* two violations
C7_Witness ==
    /\ UiEvaluated
    /\ session.results_tab
    /\ session.approved
    /\ \E l2 \in UiLoanDomain(session.asset_type) :
         /\ l2 > session.params.loan_amount
         /\ Len(UiValidate(session.asset_type,
                           [session.params EXCEPT !.loan_amount = l2]).errors) = 2

(***************************************************************************)
(* C8                                                                      *)
(***************************************************************************)
\* C8: a gold evaluation records the LTV violation if and only if the asset
\* value is positive and loan / asset is strictly above the location's limit;
\* with asset value 0 the check is skipped.
C8_GoldLtvViolation ==
    /\ (ApiEvaluated /\ ApiValidRequest /\ ApiAssetType = "gold") =>
         (Records(response.body.errors, "ltv")
            <=> LtvAbove(ApiLoanAmount, ApiAssetValue,
                         IF response.body.location = "urban"
                         THEN RBI_RULES.gold.urban_ltv ELSE RBI_RULES.gold.rural_ltv))
    /\ (UiEvaluated /\ session.asset_type = "Gold Loan") =>
         (Records(session.errors, "ltv")
            <=> LtvAbove(session.params.loan_amount, session.params.asset_value,
                         IF session.params.location = "Urban"
                         THEN ST_RBI_RULES.gold_loan.max_ltv_urban
                         ELSE ST_RBI_RULES.gold_loan.max_ltv_rural))

(***************************************************************************)
(* C9                                                                      *)
(***************************************************************************)
\* C9: a property evaluation never raises, and records the circle-rate
\* violation exactly when asset value and circle rate are both positive and
\* |asset - circle| / circle exceeds the tolerance, over- or under-declared.
C9_CircleRateCheck ==
    /\ ui_error = "none"
    /\ (ApiEvaluated /\ ApiValidRequest /\ ApiAssetType = "property") =>
         (Records(response.body.errors, "circle")
            <=> VarianceAbove(ApiAssetValue, Get(request, "circle_rate", 0),
                              20 - RBI_RULES.property.circle_rate_threshold))
    /\ (UiEvaluated /\ session.asset_type = "Property Mortgage") =>
         (Records(session.errors, "circle")
            <=> VarianceAbove(session.params.asset_value, session.params.circle_rate,
                              ST_RBI_RULES.property_mortgage.circle_rate_tolerance))

(***************************************************************************)
(* C10                                                                     *)
(***************************************************************************)
\* the limit an index resolves to: its own rate, or the Other rate
IndexRate(index, nifty50, nifty100, other) ==
    CASE index = "NIFTY50" -> nifty50
      [] index = "NIFTY100" -> nifty100
      [] OTHER -> other

\* C10: a share evaluation applies the limit its index resolves to (NIFTY50 and
\* NIFTY100 their own rate, any other index the Other rate) both in the LTV
\* check and in the maximum eligible amount, and no violation is recorded for
\* the index itself.
C10_ShareIndexLimit ==
    /\ (ApiEvaluated /\ ApiValidRequest /\ ApiAssetType = "shares") =>
         ~Records(response.body.errors, "index")
    /\ (UiEvaluated /\ session.asset_type = "Share Pledge") =>
         LET p   == session.params
             lim == IndexRate(p.share_index,
                              ST_RBI_RULES.share_pledge.max_ltv_nifty50,
                              ST_RBI_RULES.share_pledge.max_ltv_nifty100,
                              ST_RBI_RULES.share_pledge.max_ltv_other)
         IN  /\ session.ltv_limit = 5 * lim
             /\ session.max_eligible = p.asset_value * lim
             /\ p.asset_value > 0 =>
                  (Records(session.errors, "ltv")
                     <=> LtvAbove(p.loan_amount, p.asset_value, lim))
             /\ ~Records(session.errors, "index")

(***************************************************************************)
(* C11                                                                     *)
(***************************************************************************)
\* the view of the form: Result when results_tab is set, Input otherwise
ResultView == app = "streamlit" /\ session.results_tab

ResultFields ==
    {"asset_type", "approved", "max_eligible", "ltv_used", "errors", "ltv_limit", "params"}

\* the stored fields of session state s are those of one validation call, made
\* for the stored asset type with the stored parameters
FromOneCall(s) ==
    /\ ResultFields \subseteq DOMAIN s
    /\ s.asset_type \in {"Gold Loan", "Property Mortgage", "Share Pledge"}
    /\ {"asset_value", "loan_amount", "ltv_used"} \subseteq DOMAIN s.params
    /\ LET r == UiValidate(s.asset_type, s.params)
       IN  /\ "raises" \notin DOMAIN r
           /\ s.approved = r.approved
           /\ s.max_eligible = r.max_eligible
           /\ s.ltv_used = r.ltv_used
           /\ s.errors = r.errors
           /\ s.ltv_limit = r.ltv_limit
           /\ s.params.ltv_used = r.ltv_used

\* a step of the form between its two views
ViewStep ==
    /\ (~session.results_tab /\ session'.results_tab) =>
         /\ session'.asset_type = sidebar
         /\ sidebar' = sidebar
         /\ FromOneCall(session')
    /\ (session.results_tab /\ ~session'.results_tab) =>
         session' = [session EXCEPT !["results_tab"] = FALSE]
    /\ (session.results_tab /\ session'.results_tab) => session' = session

\* C11: the view is Input or Result and starts as Input; it becomes Result only
\* by a submit, which stores the fields of one validation call for the selected
\* asset type, and Input again only by Back, which changes nothing else; so in
\* every Result state the stored fields are defined and come from one call for
\* the stored asset type and parameters, whatever the sidebar selects meanwhile.
C11_ViewState ==
    /\ ~session.results_tab
    /\ [](/\ session.results_tab \in BOOLEAN
          /\ ResultView => FromOneCall(session))
    /\ [][ViewStep]_vars

\* C11 witness: a Result state showing a rejection stored for one asset type
\* while the sidebar selects another
C11_Witness ==
    /\ ResultView
    /\ session.asset_type = "Property Mortgage"
    /\ sidebar = "Share Pledge"
    /\ ~session.approved
    /\ session.errors # << >>

====
